---- MODULE Spec2Model ----
(***************************************************************************)
(* Model of the rowing-app sync engine: the SQLite store of database.py,   *)
(* the paginated Concept2 client of api_client.py and the two handlers     *)
(* that run a sync cycle (sync_workouts, called by the dashboard, and      *)
(* force_sync of main.py).                                                 *)
(*                                                                         *)
(* Time is counted in hours.  An optional Python value is a sequence of    *)
(* length at most one: None is <<>> and a value x is <<x>>.  A workout     *)
(* date, the text "YYYY-MM-DD HH:MM:SS", is the pair <<day, time of day>>; *)
(* text order on such strings is the lexicographic order on the pairs.     *)
(***************************************************************************)
EXTENDS Integers, Sequences, FiniteSets, TLC

\* ------------------------------------------------------------------ bounds
MaxTotalPages == 2  \* largest total_pages (and current_page) a response reports
MaxTicks == 2       \* the clock advances at most MaxTicks times
MaxClock == 50      \* hours covered by the input space of needs_sync
MaxLoads == 3       \* dashboard loads a browser makes for one request, redirects included

\* --------------------------------------------------------- program constants
SYNC_INTERVAL == 24
PER_PAGE == 250
MAX_PER_PAGE == 250
STOP_AFTER_ATTEMPT == 3
META_ID == 1
WAIT_MULTIPLIER == 1
EXP_BASE == 2
WAIT_MIN == 1
WAIT_MAX == 10

ClockTick == SYNC_INTERVAL \div 2

None == <<>>
Some(x) == <<x>>

\* the universe of records: two ids, two days, one time of day
Ids == {1, 2}
Days == {1, 2}
Tods == {0}
Dates == Days \X Tods
Procs == {1}

\* the request handlers that can be under way in the event loop at once;
\* only the overlap specification runs the second one
Handlers == {1, 2}

\* models.WorkoutResult, restricted to the key and the date field
WorkoutResult == [id : Ids, date : Dates]

\* text comparison of two date strings
DateLeq(a, b) == a[1] < b[1] \/ (a[1] = b[1] /\ a[2] <= b[2])

\* row["date"][:10], the YYYY-MM-DD prefix
DatePrefix(d) == d[1]

\* datetime.isoformat() and datetime.fromisoformat(): the stored text of a
\* timezone-aware timestamp, and its parse
isoformat(t) == [iso |-> t]
fromisoformat(s) == s.iso

\* ------------------------------------------------------------- SQLite store
\* A database state: the rows of the two tables.
EmptyDb == [workouts |-> {}, sync_meta |-> {}]

\* the tuple appended to rows for one result
RowOf(r) == [id |-> r.id, date |-> r.date]

\* INSERT into a table without a key constraint
InsertPlain(table, row) == table \cup {row}

\* a replace keyed by the date column: a row of another id stored with the
\* same date is dropped
InsertOrReplaceByDate(table, row) ==
    {x \in table : x.id # row.id /\ x.date # row.date} \cup {row}

\* INSERT OR REPLACE on a table whose PRIMARY KEY is id
InsertOrReplace(table, row) == {x \in table : x.id # row.id} \cup {row}

RECURSIVE executemany(_, _)
executemany(table, rows) ==
    IF rows = <<>> THEN table
    ELSE executemany(InsertOrReplace(table, Head(rows)), Tail(rows))

\* an upsert after which every stored row carries the date of the last
\* record of the batch
_upsert_workouts_touch_all(conn, results) ==
    IF results = <<>>
    THEN [conn |-> conn, count |-> 0]
    ELSE LET rows == [i \in 1..Len(results) |-> RowOf(results[i])]
         IN [conn |-> [conn EXCEPT !.workouts =
                          {[id |-> x.id, date |-> rows[Len(rows)].date] :
                              x \in executemany(conn.workouts, rows)}],
             count |-> Len(rows)]

\* an upsert that reports the number of distinct ids instead of len(rows)
_upsert_workouts_distinct(conn, results) ==
    [conn |-> [conn EXCEPT !.workouts =
                  executemany(conn.workouts,
                              [i \in 1..Len(results) |-> RowOf(results[i])])],
     count |-> Cardinality({results[i].id : i \in 1..Len(results)})]

\* _upsert_workouts(conn, results): the connection's view after the call and
\* the returned count
_upsert_workouts(conn, results) ==
    IF results = <<>>
    THEN [conn |-> conn, count |-> 0]
    ELSE LET rows == [i \in 1..Len(results) |-> RowOf(results[i])]
         IN [conn |-> [conn EXCEPT !.workouts = executemany(conn.workouts, rows)],
             count |-> Len(rows)]

\* a count taken from the wrong table
CountMetaRows(conn) == Cardinality(conn.sync_meta)

\* SELECT COUNT(*) FROM workouts
CountWorkouts(conn) == Cardinality(conn.workouts)

\* an INSERT into sync_meta that appends, as on a table without key
UpsertMetaAppend(table, row) == table \cup {row}

\* INSERT INTO sync_meta ... ON CONFLICT(id) DO UPDATE
UpsertMeta(table, row) ==
    IF \E x \in table : x.id = row.id
    THEN {IF x.id = row.id THEN row ELSE x : x \in table}
    ELSE table \cup {row}

\* a meta update that stamps the row one sync interval in the past
_update_sync_meta_stale_stamp(conn, t) ==
    [conn EXCEPT !.sync_meta =
        UpsertMeta(conn.sync_meta,
                   [id |-> META_ID, last_sync_utc |-> isoformat(t - SYNC_INTERVAL),
                    total_rows |-> CountWorkouts(conn)])]

\* a meta update that writes nothing
_update_sync_meta_noop(conn, t) == conn

\* _update_sync_meta(conn) at clock value t

_update_sync_meta(conn, t) ==
    LET now_utc == isoformat(t)
        total == CountWorkouts(conn)
    IN [conn EXCEPT !.sync_meta =
           UpsertMeta(conn.sync_meta,
                      [id |-> META_ID, last_sync_utc |-> now_utc, total_rows |-> total])]

\* get_last_sync(): Optional[datetime]
get_last_sync(d) ==
    IF \E row \in d.sync_meta : row.id = META_ID
    THEN Some(fromisoformat((CHOOSE row \in d.sync_meta : row.id = META_ID).last_sync_utc))
    ELSE None

\* a freshness check that always asks for a sync
needs_sync_always(d, t) == TRUE

\* a freshness check with > in place of >=
needs_sync_strict(d, t) ==
    LET last == get_last_sync(d)
    IN IF last = None THEN TRUE ELSE (t - last[1]) > SYNC_INTERVAL

\* needs_sync() at clock value t
needs_sync(d, t) ==
    LET last == get_last_sync(d)
    IN IF last = None THEN TRUE
       ELSE LET elapsed == t - last[1] IN elapsed >= SYNC_INTERVAL

\* a latest date taken from the other end of the order
get_earliest_workout_date(d) ==
    IF d.workouts = {} THEN None
    ELSE LET row == CHOOSE x \in d.workouts :
                        \A y \in d.workouts : DateLeq(x.date, y.date)
         IN Some(DatePrefix(row.date))

\* a latest date that names the day after the latest workout
get_latest_workout_date_next_day(d) ==
    IF d.workouts = {} THEN None
    ELSE LET row == CHOOSE x \in d.workouts :
                        \A y \in d.workouts : DateLeq(y.date, x.date)
         IN Some(DatePrefix(row.date) + 1)

\* get_latest_workout_date(): ORDER BY date DESC LIMIT 1, then [:10]
get_latest_workout_date(d) ==
    IF d.workouts = {} THEN None
    ELSE LET row == CHOOSE x \in d.workouts :
                        \A y \in d.workouts : DateLeq(y.date, x.date)
         IN Some(DatePrefix(row.date))

\* get_workout_count()
get_workout_count(d) == Cardinality(d.workouts)

\* ------------------------------------------------------------ remote server
\* models.Pagination (current_page, total_pages) inside an optional meta
Pagination == [current_page : 1..MaxTotalPages, total_pages : 0..MaxTotalPages]
\* the data of one page: no record or one
PageData == {<<>>} \cup {<<r>> : r \in WorkoutResult}
MetaSpace == {None} \cup {Some(m) : m \in Pagination}

\* models.ResultsResponse: whatever the server answers to one page request
ResultsResponse == [data : PageData, meta : MetaSpace]

\* the exceptions one HTTP attempt can end with
AttemptErrors == {"TransportError", "HTTP5xx", "HTTP4xx", "ValidationError"}

\* the store operations of the write section that can raise sqlite3.Error
PreCommitPoints == {"connect", "upsert", "update_meta", "commit"}
SyncPostCommitPoints == {"count", "get_last_sync"}
ForcePostCommitPoints == {"count"}

\* ------------------------------------------------------------------- state
VARIABLES
    db,           \* committed content of workouts.db
    now,          \* datetime.now(timezone.utc), in hours
    written,      \* history: per id, the record most recently committed with it
    pc,           \* per handler: "idle", "fetching", "done", "raised"
    kind,         \* per handler: which operation runs
    token,        \* per handler: request.session.get("access_token")
    start_state,  \* history: NEVER_SYNCED / STALE / FRESH when the cycle began
    db_before,    \* history: db when the cycle began
    filters,      \* arguments of get_all_results: from_date, to_date, workout_type
    all_results,  \* get_all_results: records accumulated so far
    page,         \* get_all_results: page counter
    attempt,      \* get_results: attempt number of the current page request
    response,     \* get_all_results: the latest ResultsResponse, if any
    calls,        \* history: query parameters of the page requests of this cycle
    ret,          \* value returned by the operation, if it returned
    err,          \* exception raised by the operation, if it raised
    failures,     \* get_results: per failed attempt the request under way retries after, its class
    slept,        \* get_results: waits tenacity slept between those attempts
    session,      \* the session cookie: access_token and refresh_token
    dpc,          \* dashboard: position of the handler
    trace,        \* history: what the current dashboard load has called, in order
    chain,        \* history: loads and refreshes since the original dashboard request
    records,      \* analytics: the record list handed to results_to_dataframe
    out           \* analytics: function applied last and what it produced

retry_vars == <<failures, slept>>
dash_vars == <<session, dpc, trace, chain>>
analytics_vars == <<records, out>>

vars == <<db, now, written, pc, kind, token, start_state, db_before, filters,
          all_results, page, attempt, response, calls, ret, err,
          retry_vars, dash_vars, analytics_vars>>

locals == <<pc, kind, token, start_state, db_before, filters, all_results, page,
            attempt, response, calls, ret, err>>

NoFilters == [from_date |-> None, to_date |-> None, workout_type |-> None]

\* the three logical states of the sync engine (spec 4.3)
SyncState(d, t) ==
    IF d.sync_meta = {} THEN "NEVER_SYNCED"
    ELSE LET row == CHOOSE x \in d.sync_meta : TRUE
         IN IF t - row.last_sync_utc.iso >= SYNC_INTERVAL THEN "STALE" ELSE "FRESH"

\* get_results: the params dict sent with the request for page n
RequestParams(n, per_page, f) ==
    [page |-> n,
     number |-> IF per_page < MAX_PER_PAGE THEN per_page ELSE MAX_PER_PAGE,
     from |-> f.from_date,
     to |-> f.to_date,
     type |-> f.workout_type]

\* no page request under way
RetryInit ==
    /\ failures = [p \in Handlers |-> <<>>]
    /\ slept = [p \in Handlers |-> <<>>]

\* a browser without session cookie, no dashboard request under way
NoSession == [access_token |-> None, refresh_token |-> None]
NoChain == [loads |-> 0, refreshes |-> 0]

DashInit ==
    /\ session = NoSession
    /\ dpc = "idle"
    /\ trace = <<>>
    /\ chain = NoChain

\* no analytics pass under way
AnalyticsInit ==
    /\ records = <<>>
    /\ out = None

Init ==
    /\ db = EmptyDb
    /\ now = 0
    /\ written = [i \in Ids |-> None]
    /\ pc = [p \in Handlers |-> "idle"]
    /\ kind = [p \in Handlers |-> "none"]
    /\ token = [p \in Handlers |-> None]
    /\ start_state = [p \in Handlers |-> "none"]
    /\ db_before = [p \in Handlers |-> EmptyDb]
    /\ filters = [p \in Handlers |-> NoFilters]
    /\ all_results = [p \in Handlers |-> <<>>]
    /\ page = [p \in Handlers |-> 1]
    /\ attempt = [p \in Handlers |-> 1]
    /\ response = [p \in Handlers |-> None]
    /\ calls = [p \in Handlers |-> <<>>]
    /\ ret = [p \in Handlers |-> None]
    /\ err = [p \in Handlers |-> None]
    /\ RetryInit
    /\ DashInit
    /\ AnalyticsInit

\* ------------------------------------------------------------ transactions
\* a commit that publishes the upserted rows without the meta update
CommitWorkoutsOnly(d, conn) == [d EXCEPT !.workouts = conn.workouts]

\* conn.commit(): the connection's view becomes the committed content

Commit(d, conn) == conn

\* a dropped connection whose pending statements stay in the file
CloseUncommittedKeepsView(d, conn) == conn

\* a connection dropped before conn.commit(): SQLite rolls its open
\* transaction back, the committed content stays
CloseUncommitted(d, conn) == d

\* a write section that is skipped when the fetched batch is empty
WriteSectionSkipEmpty(d, results, t, failAt) ==
    LET up == _upsert_workouts(d, results)
        c2 == _update_sync_meta(up.conn, t)
    IN [db |-> IF failAt \in PreCommitPoints \/ results = <<>> THEN d ELSE Commit(d, c2),
        committed |-> failAt \notin PreCommitPoints /\ results # <<>>,
        new_count |-> up.count,
        total |-> CountWorkouts(c2)]

\* the write section of a cycle (open, upsert, meta update, commit) run on
\* committed content d with the fetched batch at clock value t; failAt names
\* the store operation that raises, or is "none"
WriteSection(d, results, t, failAt) ==
    LET up == _upsert_workouts(d, results)
        c2 == _update_sync_meta(up.conn, t)
        view == CASE failAt \in {"connect", "upsert"} -> d
                  [] failAt = "update_meta" -> up.conn
                  [] OTHER -> c2
    IN [db |-> IF failAt \in PreCommitPoints
               THEN CloseUncommitted(d, view)
               ELSE Commit(d, c2),
        committed |-> failAt \notin PreCommitPoints,
        new_count |-> up.count,
        total |-> CountWorkouts(c2)]

\* history: the record last written for each id once the batch is committed
LastWritten(w, results) ==
    [i \in Ids |->
        IF \E k \in 1..Len(results) : results[k].id = i
        THEN LET k == CHOOSE k \in 1..Len(results) :
                         /\ results[k].id = i
                         /\ \A j \in (k+1)..Len(results) : results[j].id # i
             IN Some(results[k])
        ELSE w[i]]

\* ------------------------------------------------------------------ actions
\* sync_workouts, FRESH path: no sync needed
SyncFresh(p) ==
    /\ pc[p] = "idle"
    /\ ~needs_sync(db, now)
    /\ LET last == get_last_sync(db)
           total == get_workout_count(db)
       IN ret' = [ret EXCEPT ![p] = Some(
               [synced |-> FALSE,
                new_workouts |-> 0,
                total_workouts |-> total,
                last_sync |-> IF last # None THEN Some(isoformat(last[1])) ELSE None])]
    /\ pc' = [pc EXCEPT ![p] = "done"]
    /\ kind' = [kind EXCEPT ![p] = "sync_workouts"]
    /\ start_state' = [start_state EXCEPT ![p] = SyncState(db, now)]
    /\ db_before' = [db_before EXCEPT ![p] = db]
    /\ UNCHANGED <<db, now, written, token, filters, all_results, page, attempt,
                   response, calls, err>>
    /\ UNCHANGED <<retry_vars, dash_vars, analytics_vars>>

\* the filters sync_workouts passes to get_all_results
SyncFilters(latest_date) ==
    IF latest_date = None
    THEN [from_date |-> None, to_date |-> None, workout_type |-> Some("rower")]
    ELSE [from_date |-> latest_date, to_date |-> None, workout_type |-> Some("rower")]

\* get_all_results is entered: empty list, page 1, first request under way
EnterGetAllResults(p, f) ==
    /\ filters' = [filters EXCEPT ![p] = f]
    /\ all_results' = [all_results EXCEPT ![p] = <<>>]
    /\ page' = [page EXCEPT ![p] = 1]
    /\ attempt' = [attempt EXCEPT ![p] = 1]
    /\ response' = [response EXCEPT ![p] = None]
    /\ calls' = [calls EXCEPT ![p] = <<RequestParams(1, PER_PAGE, f)>>]
    /\ failures' = [failures EXCEPT ![p] = <<>>]
    /\ slept' = [slept EXCEPT ![p] = <<>>]

\* sync_workouts, sync needed: decide what to fetch and start fetching
SyncFetch(p) ==
    /\ pc[p] = "idle"
    /\ needs_sync(db, now)
    /\ LET latest_date == get_latest_workout_date(db)
       IN EnterGetAllResults(p, SyncFilters(latest_date))
    /\ pc' = [pc EXCEPT ![p] = "fetching"]
    /\ kind' = [kind EXCEPT ![p] = "sync_workouts"]
    /\ start_state' = [start_state EXCEPT ![p] = SyncState(db, now)]
    /\ db_before' = [db_before EXCEPT ![p] = db]
    /\ UNCHANGED <<db, now, written, token, ret, err>>
    /\ UNCHANGED <<dash_vars, analytics_vars>>

\* sync_workouts: a store read before the fetch raises
SyncReadFail(p) ==
    /\ pc[p] = "idle"
    /\ pc' = [pc EXCEPT ![p] = "raised"]
    /\ kind' = [kind EXCEPT ![p] = "sync_workouts"]
    /\ start_state' = [start_state EXCEPT ![p] = SyncState(db, now)]
    /\ db_before' = [db_before EXCEPT ![p] = db]
    /\ err' = [err EXCEPT ![p] = Some([type |-> "sqlite3.Error", at |-> "read"])]
    /\ UNCHANGED <<db, now, written, token, filters, all_results, page, attempt,
                   response, calls, ret>>
    /\ UNCHANGED <<retry_vars, dash_vars, analytics_vars>>

\* the bearer tokens a session cookie can carry
Tokens == {"token"}

\* a forced sync that fetches incrementally, as the STALE path does
ForceStartIncremental(p) ==
    /\ pc[p] = "idle"
    /\ \E t \in Tokens : token' = [token EXCEPT ![p] = Some(t)]
    /\ EnterGetAllResults(p, SyncFilters(get_latest_workout_date(db)))
    /\ pc' = [pc EXCEPT ![p] = "fetching"]
    /\ kind' = [kind EXCEPT ![p] = "force_sync"]
    /\ start_state' = [start_state EXCEPT ![p] = SyncState(db, now)]
    /\ db_before' = [db_before EXCEPT ![p] = db]
    /\ UNCHANGED <<db, now, written, ret, err>>
    /\ UNCHANGED <<dash_vars, analytics_vars>>

\* force_sync of an authenticated session: full fetch, no freshness check
ForceStart(p) ==
    /\ pc[p] = "idle"
    /\ \E t \in Tokens : token' = [token EXCEPT ![p] = Some(t)]
    /\ EnterGetAllResults(p, [from_date |-> None, to_date |-> None,
                              workout_type |-> Some("rower")])
    /\ pc' = [pc EXCEPT ![p] = "fetching"]
    /\ kind' = [kind EXCEPT ![p] = "force_sync"]
    /\ start_state' = [start_state EXCEPT ![p] = SyncState(db, now)]
    /\ db_before' = [db_before EXCEPT ![p] = db]
    /\ UNCHANGED <<db, now, written, ret, err>>
    /\ UNCHANGED <<dash_vars, analytics_vars>>

\* force_sync of a session without access token: redirect to the login
ForceNoToken(p) ==
    /\ pc[p] = "idle"
    /\ pc' = [pc EXCEPT ![p] = "done"]
    /\ kind' = [kind EXCEPT ![p] = "force_sync"]
    /\ start_state' = [start_state EXCEPT ![p] = SyncState(db, now)]
    /\ db_before' = [db_before EXCEPT ![p] = db]
    /\ ret' = [ret EXCEPT ![p] = Some([redirect |-> "/auth/login"])]
    /\ UNCHANGED <<db, now, written, token, filters, all_results, page, attempt,
                   response, calls, err>>
    /\ UNCHANGED <<retry_vars, dash_vars, analytics_vars>>

\* a loop condition that is off by one: <= in place of <
HasNextPageInclusive(n, resp) ==
    resp.meta # None /\ n <= resp.meta[1].total_pages

\* get_all_results, line 117: is another page requested after this response

HasNextPage(n, resp) ==
    resp.meta # None /\ n < resp.meta[1].total_pages

\* the pagination metadata with which the response to page n ends the loop
LastPageMetas(n, data) ==
    {meta \in MetaSpace : ~HasNextPage(n, [data |-> data, meta |-> meta])}

\* all_results.extend(response.data)

Extend(acc, data) == acc \o data

\* a fetch error handled by writing the pages received so far
StoreAfterFetchErrorPartial(d, partial, t) ==
    Commit(d, _update_sync_meta(_upsert_workouts(d, partial).conn, t))

\* what a fetch error does to the store: sync_workouts and force_sync have no
\* handler around get_all_results, the write section is never reached

StoreAfterFetchError(d, partial, t) == d

\* the failures a retry policy limited to transient ones would retry
Transient == {"TransportError", "HTTP5xx"}

\* what the history of a page request keeps of a failed attempt: whether its
\* exception was transient
FailureClass(e) == IF e \in Transient THEN "transient" ELSE "non_retryable"

\* the decorator names no retry predicate: tenacity's default retries after
\* every exception, whatever its type

retry_any(e) == TRUE

\* stop_after_attempt(3): no attempt after attempt number 3

stop_after_attempt(attempt_number) == attempt_number >= STOP_AFTER_ATTEMPT

\* a backoff whose exponent is the attempt number itself: 2, 4, ...
wait_exponential_no_offset(attempt_number) ==
    LET result == WAIT_MULTIPLIER * EXP_BASE ^ attempt_number
        capped == IF result < WAIT_MAX THEN result ELSE WAIT_MAX
    IN IF capped < WAIT_MIN THEN WAIT_MIN ELSE capped

\* wait_exponential(min=1, max=10): the wait after failed attempt number n is
\* multiplier * exp_base ^ (n - 1), kept within [min, max]

wait_exponential(attempt_number) ==
    LET result == WAIT_MULTIPLIER * EXP_BASE ^ (attempt_number - 1)
        capped == IF result < WAIT_MAX THEN result ELSE WAIT_MAX
    IN IF capped < WAIT_MIN THEN WAIT_MIN ELSE capped

\* get_results: one HTTP attempt of the current page request ends with an
\* exception; tenacity retries until STOP_AFTER_ATTEMPT attempts were made,
\* then raises RetryError, which leaves get_all_results and its caller
AttemptFail(p) ==
    /\ pc[p] = "fetching"
    /\ \E e \in AttemptErrors :
        /\ IF retry_any(e) /\ ~stop_after_attempt(attempt[p])
           THEN /\ failures' = [failures EXCEPT ![p] =
                                   Append(failures[p], FailureClass(e))]
                /\ slept' = [slept EXCEPT ![p] =
                                Append(slept[p], wait_exponential(attempt[p]))]
                /\ attempt' = [attempt EXCEPT ![p] = attempt[p] + 1]
                /\ UNCHANGED <<db, pc, err>>
           ELSE /\ failures' = [failures EXCEPT ![p] = <<>>]
                /\ err' = [err EXCEPT ![p] = Some([type |-> "RetryError", at |-> e])]
                /\ pc' = [pc EXCEPT ![p] = "raised"]
                /\ db' = StoreAfterFetchError(db, all_results[p], now)
                /\ UNCHANGED <<attempt, slept>>
    /\ UNCHANGED <<now, written, kind, token, start_state, db_before, filters,
                   all_results, page, response, calls, ret>>
    /\ UNCHANGED <<dash_vars, analytics_vars>>

\* get_all_results: a page arrives and another one is requested
PageMore(p) ==
    /\ pc[p] = "fetching"
    /\ \E resp \in ResultsResponse :
        /\ HasNextPage(page[p], resp)
        /\ all_results' = [all_results EXCEPT ![p] = Extend(all_results[p], resp.data)]
        /\ response' = [response EXCEPT ![p] = Some(resp)]
    /\ page' = [page EXCEPT ![p] = page[p] + 1]
    /\ attempt' = [attempt EXCEPT ![p] = 1]
    /\ calls' = [calls EXCEPT ![p] =
                    Append(calls[p], RequestParams(page[p] + 1, PER_PAGE, filters[p]))]
    /\ UNCHANGED <<db, now, written, pc, kind, token, start_state, db_before, filters,
                   ret, err>>
    /\ UNCHANGED <<dash_vars, analytics_vars>>
    /\ failures' = [failures EXCEPT ![p] = <<>>]
    /\ slept' = [slept EXCEPT ![p] = <<>>]

\* get_all_results called on its own: the last page arrives, the list is returned
FetchAllReturn(p) ==
    /\ pc[p] = "fetching"
    /\ kind[p] = "get_all_results"
    /\ \E resp \in ResultsResponse :
        /\ ~HasNextPage(page[p], resp)
        /\ all_results' = [all_results EXCEPT ![p] = Extend(all_results[p], resp.data)]
        /\ response' = [response EXCEPT ![p] = Some(resp)]
        /\ ret' = [ret EXCEPT ![p] = Some(Extend(all_results[p], resp.data))]
    /\ pc' = [pc EXCEPT ![p] = "done"]
    /\ UNCHANGED <<db, now, written, kind, token, start_state, db_before, filters,
                   page, attempt, calls, err>>
    /\ UNCHANGED <<dash_vars, analytics_vars>>
    /\ failures' = [failures EXCEPT ![p] = <<>>]
    /\ slept' = [slept EXCEPT ![p] = <<>>]

\* the dict sync_workouts returns after a committed cycle
SyncReturn(w) ==
    LET last_sync == get_last_sync(w.db)
    IN [synced |-> TRUE,
        new_workouts |-> w.new_count,
        total_workouts |-> w.total,
        last_sync |-> IF last_sync # None THEN Some(isoformat(last_sync[1])) ELSE None]

\* sync_workouts: the last page arrives and get_all_results returns; write
\* section, then the return value.  An exception unwinds the frame.
SyncWrite(p) ==
    /\ pc[p] = "fetching"
    /\ kind[p] = "sync_workouts"
    /\ \E data \in PageData,
          failAt \in {"none"} \cup PreCommitPoints \cup SyncPostCommitPoints :
        /\ LastPageMetas(page[p], data) # {}
        /\ LET results == Extend(all_results[p], data)
               w == WriteSection(db, results, now, failAt)
           IN /\ all_results' = [all_results EXCEPT ![p] =
                                     IF failAt = "none" THEN results ELSE <<>>]
              /\ response' = [response EXCEPT ![p] = None]
              /\ db' = w.db
              /\ written' = IF w.committed THEN LastWritten(written, results) ELSE written
              /\ IF failAt = "none"
                 THEN /\ pc' = [pc EXCEPT ![p] = "done"]
                      /\ ret' = [ret EXCEPT ![p] = Some(SyncReturn(w))]
                      /\ UNCHANGED err
                 ELSE /\ pc' = [pc EXCEPT ![p] = "raised"]
                      /\ err' = [err EXCEPT ![p] =
                                   Some([type |-> "sqlite3.Error", at |-> failAt])]
                      /\ UNCHANGED ret
    /\ UNCHANGED <<now, kind, token, start_state, db_before, filters, page, attempt, calls>>
    /\ UNCHANGED <<dash_vars, analytics_vars>>
    /\ failures' = [failures EXCEPT ![p] = <<>>]
    /\ slept' = [slept EXCEPT ![p] = <<>>]

\* force_sync: the last page arrives and get_all_results returns; write
\* section, then the redirect.  An exception unwinds the frame.
ForceWrite(p) ==
    /\ pc[p] = "fetching"
    /\ kind[p] = "force_sync"
    /\ \E data \in PageData,
          failAt \in {"none"} \cup PreCommitPoints \cup ForcePostCommitPoints :
        /\ LastPageMetas(page[p], data) # {}
        /\ LET results == Extend(all_results[p], data)
               w == WriteSection(db, results, now, failAt)
           IN /\ all_results' = [all_results EXCEPT ![p] =
                                     IF failAt = "none" THEN results ELSE <<>>]
              /\ response' = [response EXCEPT ![p] = None]
              /\ db' = w.db
              /\ written' = IF w.committed THEN LastWritten(written, results) ELSE written
              /\ IF failAt = "none"
                 THEN /\ pc' = [pc EXCEPT ![p] = "done"]
                      /\ ret' = [ret EXCEPT ![p] = Some([redirect |-> "/dashboard"])]
                      /\ UNCHANGED err
                 ELSE /\ pc' = [pc EXCEPT ![p] = "raised"]
                      /\ err' = [err EXCEPT ![p] =
                                   Some([type |-> "sqlite3.Error", at |-> failAt])]
                      /\ UNCHANGED ret
    /\ UNCHANGED <<now, kind, token, start_state, db_before, filters, page, attempt, calls>>
    /\ UNCHANGED <<dash_vars, analytics_vars>>
    /\ failures' = [failures EXCEPT ![p] = <<>>]
    /\ slept' = [slept EXCEPT ![p] = <<>>]

\* the handler has returned or raised: its frame is gone
Return(p) ==
    /\ pc[p] \in {"done", "raised"}
    /\ pc' = [pc EXCEPT ![p] = "idle"]
    /\ kind' = [kind EXCEPT ![p] = "none"]
    /\ token' = [token EXCEPT ![p] = None]
    /\ start_state' = [start_state EXCEPT ![p] = "none"]
    /\ db_before' = [db_before EXCEPT ![p] = EmptyDb]
    /\ filters' = [filters EXCEPT ![p] = NoFilters]
    /\ all_results' = [all_results EXCEPT ![p] = <<>>]
    /\ page' = [page EXCEPT ![p] = 1]
    /\ attempt' = [attempt EXCEPT ![p] = 1]
    /\ response' = [response EXCEPT ![p] = None]
    /\ calls' = [calls EXCEPT ![p] = <<>>]
    /\ ret' = [ret EXCEPT ![p] = None]
    /\ err' = [err EXCEPT ![p] = None]
    /\ UNCHANGED <<db, now, written>>
    /\ UNCHANGED <<dash_vars, analytics_vars>>
    /\ failures' = [failures EXCEPT ![p] = <<>>]
    /\ slept' = [slept EXCEPT ![p] = <<>>]

\* the wall clock advances
Tick ==
    /\ now + ClockTick <= MaxTicks * ClockTick
    /\ now' = now + ClockTick
    /\ UNCHANGED <<db, written, locals>>
    /\ UNCHANGED <<retry_vars, dash_vars, analytics_vars>>

Next ==
    \/ Tick
    \/ \E p \in Procs :
        \/ SyncFresh(p)
        \/ SyncFetch(p)
        \/ SyncReadFail(p)
        \/ ForceStart(p)
        \/ ForceNoToken(p)
        \/ AttemptFail(p)
        \/ PageMore(p)
        \/ SyncWrite(p)
        \/ ForceWrite(p)
        \/ Return(p)

Spec == Init /\ [][Next]_vars

\* ------------------------------------------- get_all_results on its own
\* every combination of the filters get_all_results accepts
FilterSpace ==
    [from_date : {None} \cup {Some(d) : d \in Days},
     to_date : {None} \cup {Some(d) : d \in Days},
     workout_type : {None, Some("rower"), Some("skierg")}]

InitFetch ==
    /\ db = EmptyDb
    /\ now = 0
    /\ written = [i \in Ids |-> None]
    /\ pc = [p \in Handlers |-> "idle"]
    /\ kind = [p \in Handlers |-> "none"]
    /\ token = [p \in Handlers |-> None]
    /\ start_state = [p \in Handlers |-> "none"]
    /\ db_before = [p \in Handlers |-> EmptyDb]
    /\ \E f \in FilterSpace :
        filters = [p \in Handlers |-> IF p \in Procs THEN f ELSE NoFilters]
    /\ all_results = [p \in Handlers |-> <<>>]
    /\ page = [p \in Handlers |-> 1]
    /\ attempt = [p \in Handlers |-> 1]
    /\ response = [p \in Handlers |-> None]
    /\ calls = [p \in Handlers |-> <<>>]
    /\ ret = [p \in Handlers |-> None]
    /\ err = [p \in Handlers |-> None]
    /\ RetryInit
    /\ DashInit
    /\ AnalyticsInit

\* client.get_all_results(from_date, to_date, workout_type) is called
FetchAllStart(p) ==
    /\ pc[p] = "idle"
    /\ EnterGetAllResults(p, filters[p])
    /\ pc' = [pc EXCEPT ![p] = "fetching"]
    /\ kind' = [kind EXCEPT ![p] = "get_all_results"]
    /\ UNCHANGED <<db, now, written, token, start_state, db_before, ret, err>>
    /\ UNCHANGED <<dash_vars, analytics_vars>>

NextFetch ==
    \E p \in Procs :
        \/ FetchAllStart(p)
        \/ FetchAllReturn(p)
        \/ PageMore(p)
        \/ AttemptFail(p)

SpecFetch == InitFetch /\ [][NextFetch]_vars

\* ------------------------------- get_all_results against an unbounded server
\* The page counter of get_all_results is an unbounded integer.  Here the
\* value MaxTotalPages of the counter stands for every page number from
\* MaxTotalPages on: a response to such a request that reports a total_pages
\* above the page requested makes the loop request the next page, which the
\* counter again represents by MaxTotalPages.
PageMoreBeyond(p) ==
    /\ pc[p] = "fetching"
    /\ page[p] = MaxTotalPages
    /\ \E total \in {MaxTotalPages + 1, MaxTotalPages + 2} :
        LET resp == [data |-> <<>>,
                     meta |-> Some([current_page |-> MaxTotalPages,
                                    total_pages |-> total])]
        IN /\ HasNextPage(page[p], resp)
           /\ all_results' = [all_results EXCEPT ![p] = Extend(all_results[p], resp.data)]
           /\ response' = [response EXCEPT ![p] = Some(resp)]
    /\ attempt' = [attempt EXCEPT ![p] = 1]
    /\ failures' = [failures EXCEPT ![p] = <<>>]
    /\ slept' = [slept EXCEPT ![p] = <<>>]
    /\ UNCHANGED <<db, now, written, pc, kind, token, start_state, db_before, filters,
                   page, calls, ret, err>>
    /\ UNCHANGED <<dash_vars, analytics_vars>>

NextFetchLive ==
    \E p \in Procs :
        \/ FetchAllStart(p)
        \/ PageMoreBeyond(p)
        \/ PageMore(p)
        \/ FetchAllReturn(p)
        \/ AttemptFail(p)

\* the event loop keeps running the coroutine: some step of get_all_results
\* is taken as long as one is possible; what the server answers is not
\* constrained
SpecFetchLive == InitFetch /\ [][NextFetchLive]_vars /\ WF_vars(NextFetchLive)

\* ------------------------------------------------- needs_sync on its own
\* a sync_meta table: no row, or the singleton row with any timestamp
MetaTables ==
    {{}} \cup {{[id |-> META_ID, last_sync_utc |-> isoformat(t), total_rows |-> 0]} :
                 t \in 0..MaxClock}

InitNeedsSync ==
    /\ db \in [workouts : {{}}, sync_meta : MetaTables]
    /\ now \in 0..MaxClock
    /\ written = [i \in Ids |-> None]
    /\ pc = [p \in Handlers |-> "idle"]
    /\ kind = [p \in Handlers |-> "none"]
    /\ token = [p \in Handlers |-> None]
    /\ start_state = [p \in Handlers |-> "none"]
    /\ db_before = [p \in Handlers |-> EmptyDb]
    /\ filters = [p \in Handlers |-> NoFilters]
    /\ all_results = [p \in Handlers |-> <<>>]
    /\ page = [p \in Handlers |-> 1]
    /\ attempt = [p \in Handlers |-> 1]
    /\ response = [p \in Handlers |-> None]
    /\ calls = [p \in Handlers |-> <<>>]
    /\ ret = [p \in Handlers |-> None]
    /\ err = [p \in Handlers |-> None]
    /\ RetryInit
    /\ DashInit
    /\ AnalyticsInit

\* needs_sync() is called and returns
NeedsSyncCall(p) ==
    /\ pc[p] = "idle"
    /\ pc' = [pc EXCEPT ![p] = "done"]
    /\ kind' = [kind EXCEPT ![p] = "needs_sync"]
    /\ ret' = [ret EXCEPT ![p] = Some(needs_sync(db, now))]
    /\ UNCHANGED <<db, now, written, token, start_state, db_before, filters, all_results,
                   page, attempt, response, calls, err>>
    /\ UNCHANGED <<retry_vars, dash_vars, analytics_vars>>

NextNeedsSync == \E p \in Procs : NeedsSyncCall(p)

SpecNeedsSync == InitNeedsSync /\ [][NextNeedsSync]_vars

\* ================================================================ analytics
\* Calendar of the analytics model: day number 1 is Monday 2024-01-01, so the
\* day numbers used here all lie in January 2024, ISO year 2024.
EPOCH_YEAR == 2024
EPOCH_MONTH == 1
DAYS_PER_WEEK == 7

\* the fields of models.WorkoutResult the analytics read; time is in tenths
\* of a second
AnalyticsDays == {1, 2, 8}
Distances == {0, 1000, 2000, 5000}
Times == {4200, 4500}
WorkoutMetrics == [id : Ids, date : AnalyticsDays \X Tods, distance : Distances,
                   time : Times]

\* the record lists handed to results_to_dataframe
RecordLists ==
    {<<>>} \cup {<<r>> : r \in WorkoutMetrics}
           \cup {<<r1, r2>> : r1 \in WorkoutMetrics, r2 \in WorkoutMetrics}

\* WorkoutResult.time_seconds: time / 10.0, kept as a fixed-point number with
\* one decimal (the value counts tenths)
time_seconds(r) == [tenths |-> r.time]

\* WorkoutResult.pace_per_500m: (time_seconds / distance) * 500 as the exact
\* fraction num / den of seconds, None for distance 0
pace_per_500m(r) ==
    IF r.distance > 0
    THEN Some([num |-> r.time * 500, den |-> r.distance * 10])
    ELSE None

\* WorkoutResult.date_parsed
date_parsed(r) == [day |-> r.date[1], tod |-> r.date[2]]

\* what a function call produces: a value, or an exception
Returned(v) == [raised |-> FALSE, value |-> v]
Raised(e) == [raised |-> TRUE, exc |-> e]

\* the columns of the frame built from a non-empty record list
COLUMNS == {"id", "date", "distance_m", "time_seconds", "pace_500m"}

\* the dict appended to records for one result
FrameRow(r) ==
    [id |-> r.id,
     date |-> date_parsed(r),
     distance_m |-> r.distance,
     time_seconds |-> time_seconds(r),
     pace_500m |-> pace_per_500m(r)]

\* datetime order
DatetimeLeq(a, b) == a.day < b.day \/ (a.day = b.day /\ a.tod <= b.tod)

\* df.sort_values("date") followed by reset_index: insertion of one row into
\* a list sorted by date, after the rows that are not later
RECURSIVE InsertByDate(_, _)
InsertByDate(rows, row) ==
    IF rows = <<>> THEN <<row>>
    ELSE IF DatetimeLeq(Head(rows).date, row.date)
         THEN <<Head(rows)>> \o InsertByDate(Tail(rows), row)
         ELSE <<row>> \o rows

RECURSIVE sort_values(_)
sort_values(rows) ==
    IF rows = <<>> THEN <<>>
    ELSE InsertByDate(sort_values(SubSeq(rows, 1, Len(rows) - 1)), rows[Len(rows)])

\* pd.DataFrame() and pd.DataFrame([]): no columns, no rows
EmptyFrame == [columns |-> {}, rows |-> <<>>]

\* results_to_dataframe(results): pd.DataFrame(records) has the keys of the
\* dicts as columns, hence no column at all for an empty list
results_to_dataframe(results) ==
    IF results = <<>>
    THEN EmptyFrame
    ELSE [columns |-> COLUMNS,
          rows |-> sort_values([k \in 1..Len(results) |-> FrameRow(results[k])])]

\* df.empty
empty(df) == df.columns = {} \/ df.rows = <<>>

\* df[col] and df[[col, ...]]: KeyError unless every name is a column
HasColumns(df, cols) == cols \subseteq df.columns

\* df[df["distance_m"] == dist]: the rows of that distance, in frame order
RECURSIVE RowsWithDistance(_, _)
RowsWithDistance(rows, dist) ==
    IF rows = <<>> THEN <<>>
    ELSE IF Head(rows).distance_m = dist
         THEN <<Head(rows)>> \o RowsWithDistance(Tail(rows), dist)
         ELSE RowsWithDistance(Tail(rows), dist)

\* the rows of one calendar day (a group of groupby("day"))
RECURSIVE RowsOnDay(_, _)
RowsOnDay(rows, day) ==
    IF rows = <<>> THEN <<>>
    ELSE IF Head(rows).date.day = day
         THEN <<Head(rows)>> \o RowsOnDay(Tail(rows), day)
         ELSE RowsOnDay(Tail(rows), day)

\* dropna() on the pace column: the rows that have a pace
RECURSIVE RowsWithPace(_)
RowsWithPace(rows) ==
    IF rows = <<>> THEN <<>>
    ELSE IF Head(rows).pace_500m # None
         THEN <<Head(rows)>> \o RowsWithPace(Tail(rows))
         ELSE RowsWithPace(Tail(rows))

\* the sum of a column over a list of rows
RECURSIVE SumDistance(_)
SumDistance(rows) ==
    IF rows = <<>> THEN 0 ELSE Head(rows).distance_m + SumDistance(Tail(rows))

\* the elements of a finite set of integers in ascending order
RECURSIVE Sorted(_)
Sorted(S) ==
    IF S = {} THEN <<>>
    ELSE LET m == CHOOSE x \in S : \A y \in S : x <= y
         IN <<m>> \o Sorted(S \ {m})

\* dt.isocalendar() of day number n
iso_year(n) == EPOCH_YEAR
iso_week(n) == 1 + (n - 1) \div DAYS_PER_WEEK
iso_weekday(n) == 1 + ((n - 1) % DAYS_PER_WEEK)

\* a Python dict, as the function from its keys to its values
Dict(f) == [dict |-> f]
EmptyDict == Dict(<<>>)

\* _format_time(total_seconds): "H:MM:SS.T", or "M:SS.T" below one hour, as
\* the tuple of its numbers (the last one counts tenths of a second)
SECONDS_PER_HOUR == 3600
SECONDS_PER_MINUTE == 60
_format_time(total_seconds) ==
    LET hours == total_seconds.tenths \div (SECONDS_PER_HOUR * 10)
        remaining == total_seconds.tenths % (SECONDS_PER_HOUR * 10)
        minutes == remaining \div (SECONDS_PER_MINUTE * 10)
        seconds == remaining % (SECONDS_PER_MINUTE * 10)
    IN IF hours > 0 THEN <<hours, minutes, seconds>> ELSE <<minutes, seconds>>

\* _format_pace(pace_seconds): "N/A" for None / NaN, else "M:SS.T" with the
\* seconds rounded to one decimal
_format_pace(pace_seconds) ==
    IF pace_seconds = None THEN "N/A"
    ELSE LET num == pace_seconds[1].num
             den == pace_seconds[1].den
             minutes == num \div (SECONDS_PER_MINUTE * den)
             rest == num - minutes * SECONDS_PER_MINUTE * den
             seconds == (20 * rest + den) \div (2 * den)
         IN <<minutes, seconds>>

\* strftime("%Y-%m-%d") of a datetime: the day, without the time of day
strftime(d) == [ymd |-> d.day]

\* compute_summary(df), restricted to the count and the distance total
compute_summary(df) ==
    IF empty(df)
    THEN Returned(Dict([k \in {"total_workouts"} |-> 0]))
    ELSE Returned(Dict([k \in {"total_workouts", "total_distance_m"} |->
                          IF k = "total_workouts" THEN Len(df.rows)
                          ELSE SumDistance(df.rows)]))

\* monthly_volume(df): one row per month, restricted to distance and count
monthly_volume(df) ==
    IF empty(df)
    THEN Returned(EmptyFrame)
    ELSE Returned([columns |-> {"month", "total_distance_m", "workouts"},
                   rows |-> <<[month |-> <<EPOCH_YEAR, EPOCH_MONTH>>,
                               total_distance_m |-> SumDistance(df.rows),
                               workouts |-> Len(df.rows)]>>])

\* the rows of one ISO week
RECURSIVE RowsInWeek(_, _)
RowsInWeek(rows, week) ==
    IF rows = <<>> THEN <<>>
    ELSE IF iso_week(Head(rows).date.day) = week
         THEN <<Head(rows)>> \o RowsInWeek(Tail(rows), week)
         ELSE RowsInWeek(Tail(rows), week)

\* weekly_volume(df): one row per ISO week, restricted to distance and count
weekly_volume(df) ==
    IF empty(df)
    THEN Returned(EmptyFrame)
    ELSE LET weeks == Sorted({iso_week(df.rows[k].date.day) : k \in 1..Len(df.rows)})
         IN Returned([columns |-> {"year_week", "total_distance_m", "workouts"},
                      rows |-> [i \in 1..Len(weeks) |->
                                  [year_week |-> <<EPOCH_YEAR, weeks[i]>>,
                                   total_distance_m |->
                                       SumDistance(RowsInWeek(df.rows, weeks[i])),
                                   workouts |-> Len(RowsInWeek(df.rows, weeks[i]))]]])

\* the position of the first row with the largest time
idxmax(rows) ==
    CHOOSE i \in 1..Len(rows) :
        /\ \A j \in 1..Len(rows) : rows[j].time_seconds.tenths <= rows[i].time_seconds.tenths
        /\ \A j \in 1..(i - 1) : rows[j].time_seconds.tenths < rows[i].time_seconds.tenths

\* subset["time_seconds"].idxmin(): the position of the first row with the
\* smallest time
idxmin(rows) ==
    CHOOSE i \in 1..Len(rows) :
        /\ \A j \in 1..Len(rows) : rows[i].time_seconds.tenths <= rows[j].time_seconds.tenths
        /\ \A j \in 1..(i - 1) : rows[i].time_seconds.tenths < rows[j].time_seconds.tenths

\* personal_bests: the benchmark distances and the key f"{dist}m"
standard_distances == <<2000, 5000, 6000, 10000, 21097, 42195>>
BenchmarkKey(dist) == <<dist, "m">>

\* the entry personal_bests stores for the best row of a benchmark distance;
\* a pace of 0.0 is falsy and reported as "N/A"
BenchmarkEntry(best) ==
    [time |-> _format_time(best.time_seconds),
     pace |-> IF best.pace_500m # None /\ best.pace_500m[1].num = 0
              THEN "N/A" ELSE _format_pace(best.pace_500m),
     date |-> strftime(best.date)]

\* personal_bests(df): the loop indexes df["distance_m"] without an empty
\* check, which raises KeyError on a frame without that column
personal_bests(df) ==
    IF ~HasColumns(df, {"distance_m"})
    THEN Raised("KeyError")
    ELSE LET found == {standard_distances[k] : k \in
                          {k \in 1..Len(standard_distances) :
                              RowsWithDistance(df.rows, standard_distances[k]) # <<>>}}
         IN Returned(Dict([key \in {BenchmarkKey(dist) : dist \in found} |->
                LET subset == RowsWithDistance(df.rows, key[1])
                IN BenchmarkEntry(subset[idxmin(subset)])]))

\* max(300, len(matrix) * 22)
MIN_HEIGHT == 300
ROW_HEIGHT == 22
day_names == <<"Mon", "Tue", "Wed", "Thu", "Fri", "Sat", "Sun">>

\* training_heatmap_data(df): daily totals over the days from the first to
\* the last workout, rest days filled with 0, pivoted to one row per ISO week
\* and one column per weekday that occurs among those days
training_heatmap_data(df) ==
    IF empty(df)
    THEN Returned(EmptyDict)
    ELSE LET workout_days == {df.rows[k].date.day : k \in 1..Len(df.rows)}
             first == CHOOSE d \in workout_days : \A e \in workout_days : d <= e
             last == CHOOSE d \in workout_days : \A e \in workout_days : e <= d
             all_days == first..last
             weeks == Sorted({iso_week(d) : d \in all_days})
             weekdays == Sorted({iso_weekday(d) : d \in all_days})
             Cell(w, wd) ==
                 LET ds == {d \in all_days : iso_week(d) = w /\ iso_weekday(d) = wd}
                 IN IF ds = {} THEN 0
                    ELSE SumDistance(RowsOnDay(df.rows, CHOOSE d \in ds : TRUE))
         IN Returned(Dict([k \in {"z_values", "weeks", "days", "height"} |->
                CASE k = "z_values" ->
                        [i \in 1..Len(weeks) |->
                            [j \in 1..Len(weekdays) |-> Cell(weeks[i], weekdays[j])]]
                  [] k = "weeks" ->
                        [i \in 1..Len(weeks) |-> <<iso_year(first), weeks[i]>>]
                  [] k = "days" ->
                        [j \in 1..Len(weekdays) |-> day_names[weekdays[j]]]
                  [] OTHER ->
                        IF Len(weeks) * ROW_HEIGHT > MIN_HEIGHT
                        THEN Len(weeks) * ROW_HEIGHT ELSE MIN_HEIGHT]))

\* pace_trend_regression(df), restricted to the dates and paces it reports
\* (the fitted coefficients are floating-point values)
pace_trend_regression(df) ==
    IF empty(df) \/ RowsWithPace(df.rows) = <<>>
    THEN Returned(EmptyDict)
    ELSE LET pace_df == RowsWithPace(df.rows)
         IN Returned(Dict([k \in {"dates", "paces"} |->
                IF k = "dates"
                THEN [i \in 1..Len(pace_df) |-> strftime(pace_df[i].date)]
                ELSE [i \in 1..Len(pace_df) |-> pace_df[i].pace_500m[1]]]))

\* workout_clustering(df, n_clusters): df[features] comes first and raises
\* KeyError on a frame without these columns; restricted to the number of
\* clusters and of points (the K-means labels are not modelled)
N_CLUSTERS == 4
features == {"distance_m", "pace_500m", "time_seconds"}
workout_clustering(df, n_clusters) ==
    IF ~HasColumns(df, features)
    THEN Raised("KeyError")
    ELSE LET cluster_df == RowsWithPace(df.rows)
         IN IF Len(cluster_df) < n_clusters
            THEN Returned(EmptyDict)
            ELSE Returned(Dict([k \in {"n_clusters", "points"} |->
                     IF k = "n_clusters"
                     THEN (IF n_clusters < Len(cluster_df)
                           THEN n_clusters ELSE Len(cluster_df))
                     ELSE Len(cluster_df)]))

\* every handler idle, no cycle under way
HandlersIdle ==
    /\ pc = [p \in Handlers |-> "idle"]
    /\ kind = [p \in Handlers |-> "none"]
    /\ token = [p \in Handlers |-> None]
    /\ start_state = [p \in Handlers |-> "none"]
    /\ db_before = [p \in Handlers |-> EmptyDb]
    /\ filters = [p \in Handlers |-> NoFilters]
    /\ all_results = [p \in Handlers |-> <<>>]
    /\ page = [p \in Handlers |-> 1]
    /\ attempt = [p \in Handlers |-> 1]
    /\ response = [p \in Handlers |-> None]
    /\ calls = [p \in Handlers |-> <<>>]
    /\ ret = [p \in Handlers |-> None]
    /\ err = [p \in Handlers |-> None]
    /\ RetryInit

\* ------------------------------------------- the analytics on their own
InitAnalytics ==
    /\ db = EmptyDb
    /\ now = 0
    /\ written = [i \in Ids |-> None]
    /\ HandlersIdle
    /\ DashInit
    /\ records \in RecordLists
    /\ out = None

\* one analytics function is applied to the frame built from the records
Applied(fn, result) ==
    /\ out' = Some([fn |-> fn, result |-> result])
    /\ UNCHANGED <<db, now, written, locals, retry_vars, dash_vars, records>>

compute_summary_call ==
    Applied("compute_summary", compute_summary(results_to_dataframe(records)))

monthly_volume_call ==
    Applied("monthly_volume", monthly_volume(results_to_dataframe(records)))

weekly_volume_call ==
    Applied("weekly_volume", weekly_volume(results_to_dataframe(records)))

personal_bests_call ==
    Applied("personal_bests", personal_bests(results_to_dataframe(records)))

training_heatmap_data_call ==
    Applied("training_heatmap_data", training_heatmap_data(results_to_dataframe(records)))

pace_trend_regression_call ==
    Applied("pace_trend_regression", pace_trend_regression(results_to_dataframe(records)))

workout_clustering_call ==
    \E n_clusters \in {1, 2, N_CLUSTERS} :
        Applied("workout_clustering",
                workout_clustering(results_to_dataframe(records), n_clusters))

NextAnalytics ==
    \/ compute_summary_call
    \/ monthly_volume_call
    \/ weekly_volume_call
    \/ personal_bests_call
    \/ training_heatmap_data_call
    \/ pace_trend_regression_call
    \/ workout_clustering_call

SpecAnalytics == InitAnalytics /\ [][NextAnalytics]_vars

\* ------------------------------------------------------------ the dashboard
\* the refresh tokens a token response can carry (a str, possibly empty)
RefreshTokens == {"refresh", ""}

\* truth value of an optional string: None and "" are falsy
Truthy(x) == x # None /\ x[1] # ""

InitDash ==
    /\ db = EmptyDb
    /\ now = 0
    /\ written = [i \in Ids |-> None]
    /\ HandlersIdle
    /\ session = NoSession
    /\ dpc = "idle"
    /\ trace = <<>>
    /\ chain = NoChain
    /\ AnalyticsInit

\* one entry of the history of a load: the call made and whether it returned
Called(call, ok) == [call |-> call, ok |-> ok]

\* a try block that goes on after a failed call
AfterTryIgnoringError(ok, next) == next

\* inside the try block of the dashboard: a call that raises leads to the
\* except branch, a call that returns to the next statement

AfterTry(ok, next) == IF ok THEN next ELSE "except"

\* dashboard, lines 101-105: no access token redirects to the login,
\* otherwise the client is built and get_user is awaited
EnterDashboard ==
    /\ trace' = <<>>
    /\ dpc' = IF ~Truthy(session.access_token) THEN "login" ELSE "get_user"

\* the browser requests /dashboard
DashRequest ==
    /\ dpc = "idle"
    /\ chain' = [loads |-> 1, refreshes |-> 0]
    /\ EnterDashboard
    /\ UNCHANGED <<db, now, written, locals, retry_vars, session, analytics_vars>>

\* the browser follows RedirectResponse("/dashboard"): the handler runs again
DashFollowRedirect ==
    /\ dpc = "redirect_dashboard"
    /\ chain.loads < MaxLoads
    /\ chain' = [chain EXCEPT !.loads = chain.loads + 1]
    /\ EnterDashboard
    /\ UNCHANGED <<db, now, written, locals, retry_vars, session, analytics_vars>>

\* await client.get_user() returns or raises
DashGetUser ==
    /\ dpc = "get_user"
    /\ \E ok \in BOOLEAN :
        /\ trace' = Append(trace, Called("get_user", ok))
        /\ dpc' = AfterTry(ok, "sync")
    /\ UNCHANGED <<db, now, written, locals, retry_vars, session, chain, analytics_vars>>

\* await sync_workouts(client) returns or raises: the FRESH path, a fetch
\* error, or a fetch followed by the write section
DashSync ==
    /\ dpc = "sync"
    /\ \E fetched \in BOOLEAN, results \in PageData,
          failAt \in {"none", "read"} \cup PreCommitPoints \cup SyncPostCommitPoints :
        LET fresh == ~needs_sync(db, now)
            writes == ~fresh /\ fetched /\ failAt # "read"
            w == WriteSection(db, results, now, failAt)
            ok == /\ failAt = "none"
                  /\ fresh \/ fetched
        IN /\ fresh => (failAt \in {"none", "read"} /\ fetched /\ results = <<>>)
           /\ ~fetched => (failAt = "none" /\ results = <<>>)
           /\ db' = IF writes THEN w.db ELSE db
           /\ written' = IF writes /\ w.committed
                         THEN LastWritten(written, results) ELSE written
           /\ trace' = Append(trace, Called("sync_workouts", ok))
           /\ dpc' = AfterTry(ok, "load")
    /\ UNCHANGED <<now, locals, retry_vars, session, chain, analytics_vars>>

\* the analytics pass of lines 135-142 on the loaded list: personal_bests
\* raises on the frame of an empty list
AnalyticsPassRaises(loaded_empty) ==
    loaded_empty /\ personal_bests(results_to_dataframe(<<>>)).raised

\* load_workouts_as_models, then the analytics and the page; there is no
\* await between them.  The list is empty for an empty store and may be
\* empty under the date filters of the request.
DashLoadRender ==
    /\ dpc = "load"
    /\ \E ok \in BOOLEAN, loaded_empty \in BOOLEAN :
        /\ db.workouts = {} => loaded_empty
        /\ IF ok
           THEN /\ trace' = trace \o <<Called("load_workouts_as_models", TRUE),
                                       Called("analytics", ~AnalyticsPassRaises(loaded_empty))>>
                /\ dpc' = IF AnalyticsPassRaises(loaded_empty)
                          THEN "error500" ELSE "rendered"
           ELSE /\ loaded_empty
                /\ trace' = Append(trace, Called("load_workouts_as_models", FALSE))
                /\ dpc' = AfterTry(FALSE, "rendered")
    /\ UNCHANGED <<db, now, written, locals, retry_vars, session, chain, analytics_vars>>

\* the except branch, lines 119-132: with a refresh token the token is
\* refreshed and the browser is redirected to /dashboard; without one, or
\* when the refresh raises, the session is cleared and the login follows
DashExcept ==
    /\ dpc = "except"
    /\ \E refreshed \in BOOLEAN :
        IF Truthy(session.refresh_token) /\ refreshed
        THEN /\ \E t \in Tokens, r \in RefreshTokens :
                  session' = [access_token |-> Some(t), refresh_token |-> Some(r)]
             /\ trace' = Append(trace, Called("refresh_access_token", TRUE))
             /\ chain' = [chain EXCEPT !.refreshes = chain.refreshes + 1]
             /\ dpc' = "redirect_dashboard"
        ELSE /\ ~Truthy(session.refresh_token) => ~refreshed
             /\ session' = NoSession
             /\ trace' = IF Truthy(session.refresh_token)
                         THEN Append(trace, Called("refresh_access_token", FALSE))
                         ELSE trace
             /\ dpc' = "login"
             /\ UNCHANGED chain
    /\ UNCHANGED <<db, now, written, locals, retry_vars, analytics_vars>>

\* the response went out (page, error, login redirect, or a redirect the
\* browser no longer follows); the session cookie stays
DashDone ==
    /\ \/ dpc \in {"rendered", "error500", "login"}
       \/ dpc = "redirect_dashboard" /\ chain.loads >= MaxLoads
    /\ dpc' = "idle"
    /\ trace' = <<>>
    /\ chain' = NoChain
    /\ UNCHANGED <<db, now, written, locals, retry_vars, session, analytics_vars>>

\* auth_callback: the login stores both tokens in the session
DashLogin ==
    /\ dpc = "idle"
    /\ ~Truthy(session.access_token)
    /\ \E t \in Tokens, r \in RefreshTokens :
          session' = [access_token |-> Some(t), refresh_token |-> Some(r)]
    /\ UNCHANGED <<db, now, written, locals, retry_vars, dpc, trace, chain, analytics_vars>>

NextDash ==
    \/ Tick
    \/ DashRequest
    \/ DashFollowRedirect
    \/ DashGetUser
    \/ DashSync
    \/ DashLoadRender
    \/ DashExcept
    \/ DashDone
    \/ DashLogin

SpecDash == InitDash /\ [][NextDash]_vars

\* ------------------------------------------- the store functions on their own
\* 23:59:59 as a time of day, in seconds
END_OF_DAY == 86399

\* the text "YYYY-MM-DD" as a comparison bound: it sorts before every
\* "YYYY-MM-DD HH:MM:SS" of the same day
BareDay(day) == <<day, -1>>

\* a to_date used as it is, without the end-of-day suffix
EndOfDayMissing(day) == BareDay(day)

\* to_date + " 23:59:59"

EndOfDay(day) == <<day, END_OF_DAY>>

\* the rows of a table in ascending order of date (rows of equal date in
\* rowid order, the rowid being the id)
RECURSIVE OrderByDate(_)
OrderByDate(rows) ==
    IF rows = {} THEN <<>>
    ELSE LET first == CHOOSE x \in rows : \A y \in rows :
                          \/ x = y
                          \/ ~DateLeq(y.date, x.date)
                          \/ (DateLeq(x.date, y.date) /\ x.id < y.id)
         IN <<first>> \o OrderByDate(rows \ {first})

\* load_workouts_as_models(from_date, to_date): WHERE date >= from_date AND
\* date <= to_date + " 23:59:59" ORDER BY date ASC; a filter that is None is
\* not applied
load_workouts_as_models(d, from_date, to_date) ==
    LET selected == {row \in d.workouts :
                        /\ from_date # None => DateLeq(BareDay(from_date[1]), row.date)
                        /\ to_date # None => DateLeq(row.date, EndOfDay(to_date[1]))}
        rows == OrderByDate(selected)
    IN [k \in 1..Len(rows) |-> [id |-> rows[k].id, date |-> rows[k].date]]

\* the stores: each id absent or stored once, at any day and at one of the
\* times of day 00:00:00, 12:00:00 and 23:59:59
Stores ==
    {[workouts |-> w, sync_meta |-> {}] :
        w \in {w \in SUBSET [id : Ids, date : Days \X {0, 43200, END_OF_DAY}] :
                  \A r1, r2 \in w : r1.id = r2.id => r1 = r2}}

InitStore ==
    /\ db \in Stores
    /\ now = 0
    /\ written = [i \in Ids |-> None]
    /\ HandlersIdle
    /\ DashInit
    /\ AnalyticsInit

\* load_workouts_as_models(from_date, to_date) is called and returns
LoadCall(p) ==
    /\ pc[p] = "idle"
    /\ \E from_date \in {None} \cup {Some(day) : day \in Days},
          to_date \in {None} \cup {Some(day) : day \in Days} :
        /\ filters' = [filters EXCEPT ![p] =
                          [from_date |-> from_date, to_date |-> to_date,
                           workout_type |-> None]]
        /\ ret' = [ret EXCEPT ![p] =
                      Some(load_workouts_as_models(db, from_date, to_date))]
    /\ pc' = [pc EXCEPT ![p] = "done"]
    /\ kind' = [kind EXCEPT ![p] = "load_workouts_as_models"]
    /\ UNCHANGED <<db, now, written, token, start_state, db_before, all_results,
                   page, attempt, response, calls, err>>
    /\ UNCHANGED <<retry_vars, dash_vars, analytics_vars>>

\* get_latest_workout_date() is called and returns
LatestDateCall(p) ==
    /\ pc[p] = "idle"
    /\ ret' = [ret EXCEPT ![p] = Some(get_latest_workout_date(db))]
    /\ pc' = [pc EXCEPT ![p] = "done"]
    /\ kind' = [kind EXCEPT ![p] = "get_latest_workout_date"]
    /\ UNCHANGED <<db, now, written, token, start_state, db_before, filters,
                   all_results, page, attempt, response, calls, err>>
    /\ UNCHANGED <<retry_vars, dash_vars, analytics_vars>>

\* _upsert_workouts(conn, results) is called on a fresh connection with a
\* batch of up to two records (ids may repeat), returns, and the connection
\* is committed
UpsertCall(p) ==
    /\ pc[p] = "idle"
    /\ \E results \in {<<>>} \cup {<<r>> : r \in WorkoutResult}
                         \cup {<<r1, r2>> : r1 \in WorkoutResult, r2 \in WorkoutResult} :
        LET up == _upsert_workouts(db, results)
        IN /\ all_results' = [all_results EXCEPT ![p] = results]
           /\ db' = Commit(db, up.conn)
           /\ ret' = [ret EXCEPT ![p] = Some(up.count)]
    /\ db_before' = [db_before EXCEPT ![p] = db]
    /\ pc' = [pc EXCEPT ![p] = "done"]
    /\ kind' = [kind EXCEPT ![p] = "_upsert_workouts"]
    /\ UNCHANGED <<now, written, token, start_state, filters, page, attempt,
                   response, calls, err>>
    /\ UNCHANGED <<retry_vars, dash_vars, analytics_vars>>

NextStore ==
    \E p \in Procs :
        \/ LoadCall(p)
        \/ LatestDateCall(p)
        \/ UpsertCall(p)

SpecStore == InitStore /\ [][NextStore]_vars

\* ------------------------------------- two sync cycles in one event loop
\* the store two overlapping cycles start from: never synced, or synced at
\* clock value 0 with one record and stale by now
InitOverlap ==
    /\ db \in {EmptyDb,
               _update_sync_meta(_upsert_workouts(EmptyDb,
                                    <<[id |-> 1, date |-> <<1, 0>>]>>).conn, 0)}
    /\ now = SYNC_INTERVAL
    /\ written = [i \in Ids |->
                     IF \E r \in db.workouts : r.id = i
                     THEN Some(CHOOSE r \in db.workouts : r.id = i)
                     ELSE None]
    /\ HandlersIdle
    /\ DashInit
    /\ AnalyticsInit

\* the event loop runs one handler until its next await: each step is the
\* code of one handler between two suspend points; each handler serves one
\* request
NextOverlap ==
    \E p \in Handlers :
        \/ SyncFresh(p)
        \/ SyncFetch(p)
        \/ AttemptFail(p)
        \/ PageMore(p)
        \/ SyncWrite(p)

SpecOverlap == InitOverlap /\ [][NextOverlap]_vars

\* ================================================================== claims
\* the ids a batch carries
BatchIds(results) == {results[k].id : k \in 1..Len(results)}

\* the singleton sync_meta row of a database state that has one
MetaRow(d) == CHOOSE x \in d.sync_meta : TRUE

\* C1: after any sequence of sync and forced-sync cycles the workouts table
\* holds at most one row per id, and that row carries the field values of
\* the record most recently written with that id.
C1_OneRowPerIdLatestValues ==
    /\ \A r1, r2 \in db.workouts : r1.id = r2.id => r1 = r2
    /\ \A i \in Ids :
        IF written[i] = None
        THEN \A r \in db.workouts : r.id # i
        ELSE \E r \in db.workouts : r.id = i /\ r.date = written[i][1].date

\* C1 witness: a committed cycle whose batch carries one id twice with
\* different dates, the id being stored before the cycle with the first date;
\* the table holds that id once, with the date delivered last.
C1_Witness ==
    \E p \in Procs :
        /\ pc[p] = "done"
        /\ kind[p] \in {"sync_workouts", "force_sync"}
        /\ db # db_before[p]
        /\ Len(all_results[p]) = 2
        /\ all_results[p][1].id = all_results[p][2].id
        /\ all_results[p][1].date # all_results[p][2].date
        /\ \E r \in db_before[p].workouts :
              r.id = all_results[p][1].id /\ r.date = all_results[p][1].date
        /\ Cardinality({r \in db.workouts : r.id = all_results[p][2].id}) = 1
        /\ \E r \in db.workouts :
              r.id = all_results[p][2].id /\ r.date = all_results[p][2].date

\* C2: if sync_workouts raises at any point of the cycle, workouts and
\* sync_meta are exactly as they were before the cycle started; when it
\* returns after a fetch, the upserted rows and the meta update are both
\* committed.
C2_AllOrNothing ==
    \A p \in Procs :
        kind[p] = "sync_workouts" =>
            /\ pc[p] = "raised" => db = db_before[p]
            /\ (pc[p] = "done" /\ ret[p][1].synced) =>
                  /\ BatchIds(all_results[p]) \subseteq {r.id : r \in db.workouts}
                  /\ db.sync_meta # {}
                  /\ ret[p][1].last_sync = Some(MetaRow(db).last_sync_utc)

\* C3: when the remote fetch of a cycle fails (the page request has used up
\* its attempts), on the first page or a later one, nothing is written: the
\* store is as it was before the cycle, and the error leaves the operation
\* (it has raised and returned nothing).
C3_FetchFailureWritesNothing ==
    \A p \in Procs :
        (pc[p] = "raised" /\ err[p] # None /\ err[p][1].type = "RetryError") =>
            /\ db = db_before[p]
            /\ ret[p] = None

\* C3 witness: sync_workouts raised on its second page request, after a first
\* page that carried a record; the store is as before the cycle.
C3_Witness ==
    \E p \in Procs :
        /\ kind[p] = "sync_workouts"
        /\ pc[p] = "raised"
        /\ err[p] # None /\ err[p][1].type = "RetryError"
        /\ Len(calls[p]) = 2
        /\ Len(all_results[p]) = 1
        /\ all_results[p][1].id \notin {r.id : r \in db.workouts}
        /\ db = db_before[p]

C5_FreshNoFetch ==
    \A p \in Procs :
        (kind[p] = "sync_workouts" /\ start_state[p] = "FRESH") =>
            /\ pc[p] # "fetching"
            /\ calls[p] = <<>>
            /\ db = db_before[p]
            /\ pc[p] = "raised" => err[p][1].at = "read"
            /\ pc[p] = "done" =>
                  /\ ret[p][1].synced = FALSE
                  /\ ret[p][1].new_workouts = 0
                  /\ ret[p][1].total_workouts = Cardinality(db_before[p].workouts)
                  /\ ret[p][1].last_sync = Some(MetaRow(db_before[p]).last_sync_utc)

\* C5 witness: sync_workouts returned in the FRESH state with rows stored
C5_Witness ==
    \E p \in Procs :
        /\ kind[p] = "sync_workouts" /\ start_state[p] = "FRESH"
        /\ pc[p] = "done"
        /\ db.workouts # {}
        /\ ret[p][1].synced = FALSE
        /\ ret[p][1].total_workouts = 2

\* the day of the latest stored workout, read off the table row by row
LatestStoredDay(d) ==
    IF d.workouts = {} THEN None
    ELSE Some(CHOOSE day \in Days :
                 /\ \E r \in d.workouts : r.date[1] = day
                 /\ \A r \in d.workouts : r.date[1] <= day)

\* a request that asks for the complete rowing history
FullHistoryRequest(c) ==
    c.from = None /\ c.to = None /\ c.type = Some("rower")

\* C6: sync_workouts invoked in the NEVER_SYNCED state fetches the complete
\* remote history: unless a store read fails first it requests page 1, and
\* every page request of the cycle has no date-from, no date-to and the
\* activity type 'rower'.
C6_NeverSyncedFullFetch ==
    \A p \in Procs :
        (kind[p] = "sync_workouts" /\ start_state[p] = "NEVER_SYNCED") =>
            /\ (pc[p] = "raised" /\ err[p][1].at = "read") \/ Len(calls[p]) >= 1
            /\ \A i \in 1..Len(calls[p]) : FullHistoryRequest(calls[p][i])

\* C6 witness: a NEVER_SYNCED cycle has requested two pages
C6_Witness ==
    \E p \in Procs :
        /\ kind[p] = "sync_workouts" /\ start_state[p] = "NEVER_SYNCED"
        /\ db_before[p].sync_meta = {}
        /\ Len(calls[p]) = 2
        /\ calls[p][2].page = 2 /\ FullHistoryRequest(calls[p][2])

C8_SyncReturnValue ==
    \A p \in Procs :
        (kind[p] = "sync_workouts" /\ pc[p] = "done" /\ calls[p] # <<>>) =>
            /\ ret[p][1].synced = TRUE
            /\ ret[p][1].new_workouts = Len(all_results[p])
            /\ ret[p][1].total_workouts = Cardinality(db.workouts)
            /\ db.sync_meta # {}
            /\ ret[p][1].last_sync = Some(MetaRow(db).last_sync_utc)
            /\ MetaRow(db).last_sync_utc.iso <= now

\* C8 witness: a committed cycle whose batch repeats an id, so that the
\* returned new_workouts (2) differs from the rows the table gained (1)
C8_Witness ==
    \E p \in Procs :
        /\ kind[p] = "sync_workouts" /\ pc[p] = "done"
        /\ Len(all_results[p]) = 2
        /\ all_results[p][1].id = all_results[p][2].id
        /\ db_before[p].workouts = {}
        /\ ret[p][1].synced = TRUE
        /\ ret[p][1].new_workouts = 2
        /\ ret[p][1].total_workouts = 1

\* C9 (state part): a forced sync fetches in every store state, and every
\* page request of it asks for the full history; once it has returned, the
\* batch is stored and sync_meta holds the row count.
C9_ForceInv ==
    \A p \in Procs :
        (kind[p] = "force_sync" /\ token[p] # None) =>
            /\ Len(calls[p]) >= 1
            /\ \A i \in 1..Len(calls[p]) : FullHistoryRequest(calls[p][i])
            /\ pc[p] = "done" =>
                  /\ BatchIds(all_results[p]) \subseteq {r.id : r \in db.workouts}
                  /\ db.sync_meta # {}
                  /\ MetaRow(db).total_rows = Cardinality(db.workouts)

\* C9 (step part): the step in which a forced sync finishes commits the
\* upserted batch together with the singleton sync_meta row carrying the
\* time of that step.
C9_ForceStep ==
    \A p \in Procs :
        (kind[p] = "force_sync" /\ pc[p] = "fetching" /\ pc'[p] = "done") =>
            /\ db'.sync_meta = {[id |-> 1, last_sync_utc |-> [iso |-> now],
                                 total_rows |-> Cardinality(db'.workouts)]}
            /\ \A r \in db.workouts :
                  r.id \notin BatchIds(all_results'[p]) => r \in db'.workouts

\* C9: the forced sync, in any store state, skips the freshness check, always
\* performs a full-history fetch with no date filter, then upserts the batch
\* and updates sync_meta in one committed transaction, after which last_sync
\* is the time of the forced sync.
C9_ForceSyncFullFetchAndCommit == []C9_ForceInv /\ [][C9_ForceStep]_vars

\* C9 witness: a forced sync started in the FRESH state over a non-empty
\* store has fetched and committed, and last_sync moved to its time
C9_Witness ==
    \E p \in Procs :
        /\ kind[p] = "force_sync" /\ pc[p] = "done" /\ token[p] # None
        /\ start_state[p] = "FRESH"
        /\ db_before[p].workouts # {}
        /\ MetaRow(db_before[p]).last_sync_utc.iso < MetaRow(db).last_sync_utc.iso
        /\ MetaRow(db).last_sync_utc.iso = now

\* the pagination metadata of the latest response of handler p
LastMeta(p) == response[p][1].meta

\* the requests of get_all_results so far are for pages 1, 2, 3, ... in this
\* order, one per value of the page counter, each with the filters passed in
C10_RequestsInOrder(p) ==
    /\ Len(calls[p]) = page[p]
    /\ \A i \in 1..Len(calls[p]) :
          /\ calls[p][i].page = i
          /\ calls[p][i].number = 250
          /\ calls[p][i].from = filters[p].from_date
          /\ calls[p][i].to = filters[p].to_date
          /\ calls[p][i].type = filters[p].workout_type

\* C10 (state part, as amended): requests in page order with the same
\* filters; a further page was requested only after a response with metadata
\* whose total_pages exceeds the number of the page just requested; the call
\* returns, with the accumulated list, on the first response without metadata
\* or with total_pages not above the number of the page just requested.
C10_FetchInv ==
    \A p \in Procs :
        kind[p] = "get_all_results" =>
            /\ C10_RequestsInOrder(p)
            /\ (pc[p] = "fetching" /\ page[p] > 1) =>
                  /\ response[p] # None
                  /\ LastMeta(p) # None
                  /\ page[p] - 1 < LastMeta(p)[1].total_pages
            /\ pc[p] = "done" =>
                  /\ response[p] # None
                  /\ LastMeta(p) = None \/ page[p] >= LastMeta(p)[1].total_pages
                  /\ ret[p] = Some(all_results[p])

\* C10 (step part): the records of each arriving page are appended, in the
\* order received, to the list built from the earlier pages; a failed attempt
\* changes neither the list nor the page counter.
C10_FetchStep ==
    \A p \in Procs :
        (kind[p] = "get_all_results" /\ pc[p] = "fetching") =>
            IF page'[p] = page[p] + 1 \/ pc'[p] = "done"
            THEN /\ response'[p] # None
                 /\ all_results'[p] = all_results[p] \o response'[p][1].data
                 /\ pc'[p] = "done" => page'[p] = page[p] /\ calls'[p] = calls[p]
            ELSE all_results'[p] = all_results[p] /\ page'[p] = page[p]

\* C10 as amended: get_all_results requests pages 1, 2, 3, ... one at a time
\* with the same filters, returns the concatenation of the pages' records in
\* page order, and stops exactly when the response has no pagination metadata
\* or its total_pages is not above the number of the page just requested.
C10_FetchAllPagination == []C10_FetchInv /\ [][C10_FetchStep]_vars

\* C10 witness: a call with both date filters set returned the two records
\* of two pages in page order
C10_Witness ==
    \E p \in Procs :
        /\ kind[p] = "get_all_results" /\ pc[p] = "done"
        /\ filters[p].from_date # None /\ filters[p].to_date # None
        /\ Len(calls[p]) = 2
        /\ LastMeta(p) # None /\ LastMeta(p)[1].total_pages = 2
        /\ Len(ret[p][1]) = 2 /\ ret[p][1][1] # ret[p][1][2]
        /\ ret[p][1][2] = response[p][1].data[1]

\* C10 as stated: requests in page order with the same filters, and the call
\* stops exactly when the response's current_page equals total_pages or the
\* response has no pagination metadata.
C10_StopsWhenCurrentEqualsTotal ==
    \A p \in Procs :
        kind[p] = "get_all_results" =>
            /\ C10_RequestsInOrder(p)
            /\ (pc[p] = "fetching" /\ page[p] > 1) =>
                  /\ LastMeta(p) # None
                  /\ LastMeta(p)[1].current_page # LastMeta(p)[1].total_pages
            /\ pc[p] = "done" =>
                  \/ LastMeta(p) = None
                  \/ LastMeta(p)[1].current_page = LastMeta(p)[1].total_pages

\* C11: get_all_results terminates for every server behaviour: a call that
\* is fetching eventually returns or raises.
C11_GetAllResultsTerminates ==
    \A p \in Procs : (pc[p] = "fetching") ~> (pc[p] \in {"done", "raised"})

\* C12: a page request makes at most 3 attempts; tenacity waits 1 after the
\* first failed attempt and 2 after the second, never more than 10; after the
\* third consecutive failure the request raises and no fourth attempt is made.
C12_RetryPolicy ==
    \A p \in Procs :
        /\ attempt[p] \in 1..3
        /\ Len(failures[p]) <= 2
        /\ Len(slept[p]) <= 2
        /\ \A k \in 1..Len(slept[p]) : slept[p][k] <= 10
        /\ Len(slept[p]) >= 1 => slept[p][1] = 1
        /\ Len(slept[p]) >= 2 => slept[p][2] = 2
        /\ pc[p] = "fetching" =>
              /\ Len(failures[p]) = attempt[p] - 1
              /\ Len(slept[p]) = Len(failures[p])
        /\ (pc[p] = "raised" /\ err[p] # None /\ err[p][1].type = "RetryError") =>
              /\ attempt[p] = 3
              /\ Len(slept[p]) = 2

\* a third transient failure in a row: two waits were slept, the request has
\* raised after attempt 3
C12_Witness ==
    \E p \in Procs :
        /\ pc[p] = "raised"
        /\ attempt[p] = 3
        /\ slept[p] = <<1, 2>>
        /\ err[p] # None /\ err[p][1].type = "RetryError"
        /\ err[p][1].at \in {"TransportError", "HTTP5xx"}

\* C13: a page request whose attempt fails with a non-retryable failure (a
\* 4xx response, a malformed payload) is attempted exactly once: after such a
\* failure the request is not under way any more, no retry follows it.
C13_NonRetryableAttemptedOnce ==
    \A p \in Procs :
        \A k \in 1..Len(failures[p]) :
            failures[p][k] = "non_retryable" => pc[p] # "fetching"

\* the sync_meta row a cycle committing at clock value t leaves behind
CommittedMetaRow(d, t) ==
    [id |-> 1, last_sync_utc |-> [iso |-> t], total_rows |-> Cardinality(d.workouts)]

\* the step commits the write section of a cycle of handler p
CommitsCycle(p) ==
    /\ pc[p] = "fetching"
    /\ kind[p] \in {"sync_workouts", "force_sync"}
    /\ \/ pc'[p] = "done"
       \/ /\ pc'[p] = "raised"
          /\ err'[p] # None
          /\ err'[p][1].at \in {"count", "get_last_sync"}

C14_MetaInv ==
    /\ Cardinality(db.sync_meta) <= 1
    /\ \A row \in db.sync_meta : row.id = 1

C14_MetaStep ==
    /\ (\E p \in Procs : CommitsCycle(p)) =>
           db'.sync_meta = {CommittedMetaRow(db', now)}
    /\ db'.sync_meta # db.sync_meta => \E p \in Procs : CommitsCycle(p)

\* C14: sync_meta has no row until the first cycle commits; every committed
\* sync or forced-sync cycle leaves exactly one row, with id 1 and the values
\* of that cycle; the table changes in no other step and never holds two rows.
C14_SyncMetaSingleton == []C14_MetaInv /\ [][C14_MetaStep]_vars

\* a committed cycle that found a row of an earlier cycle and overwrote it
C14_Witness ==
    \E p \in Procs :
        /\ pc[p] = "done"
        /\ kind[p] \in {"sync_workouts", "force_sync"}
        /\ db_before[p].sync_meta # {}
        /\ db.sync_meta # db_before[p].sync_meta
        /\ db.sync_meta = {CommittedMetaRow(db, now)}

\* C15: in every committed store state, a sync_meta row, if there is one,
\* has total_rows equal to the number of rows of the workouts table.
C15_TotalRowsIsCount ==
    \A row \in db.sync_meta : row.total_rows = Cardinality(db.workouts)

\* a committed cycle that added rows: the count in sync_meta grew with them
C15_Witness ==
    \E p \in Procs :
        /\ pc[p] = "done"
        /\ kind[p] \in {"sync_workouts", "force_sync"}
        /\ db_before[p].sync_meta # {}
        /\ Cardinality(db.workouts) > Cardinality(db_before[p].workouts)
        /\ \E row \in db.sync_meta : row.total_rows = Cardinality(db.workouts)
        /\ \E row \in db_before[p].sync_meta : row.total_rows < Cardinality(db.workouts)

\* the result of the analytics function applied last, when it is fn
AppliedTo(fn) == out # None /\ out[1].fn = fn

\* C18: on the empty record list no analytics function raises, and each
\* returns its empty-result value: {total_workouts: 0} for compute_summary,
\* an empty frame for the two volume functions, an empty dict for the others.
C18_EmptyInputNeverRaises ==
    (records = <<>> /\ out # None) =>
        /\ ~out[1].result.raised
        /\ out[1].fn = "compute_summary" =>
              out[1].result.value = [dict |-> [k \in {"total_workouts"} |-> 0]]
        /\ out[1].fn \in {"monthly_volume", "weekly_volume"} =>
              out[1].result.value = [columns |-> {}, rows |-> <<>>]
        /\ out[1].fn \in {"personal_bests", "training_heatmap_data",
                          "pace_trend_regression", "workout_clustering"} =>
              out[1].result.value = [dict |-> <<>>]

\* C19: for one record of distance D dated on a Monday, training_heatmap_data
\* returns a matrix of 1 row and 7 columns Mon..Sun whose Monday cell is D
\* and whose other cells are 0.
C19_HeatmapOneMondayRecord ==
    (AppliedTo("training_heatmap_data") /\ Len(records) = 1
        /\ records[1].date[1] % 7 = 1) =>
        /\ ~out[1].result.raised
        /\ out[1].result.value.dict["z_values"] =
               <<<<records[1].distance, 0, 0, 0, 0, 0, 0>>>>
        /\ out[1].result.value.dict["days"] =
               <<"Mon", "Tue", "Wed", "Thu", "Fri", "Sat", "Sun">>

\* the records of exactly the distance dist
RecordsOfDistance(dist) ==
    {k \in 1..Len(records) : records[k].distance = dist}

\* C20: for a non-empty record list, personal_bests has a key for a benchmark
\* distance iff some record has exactly that distance, and the entry of the
\* key comes from a record whose time is the minimum among those records.
C20_PersonalBests ==
    (AppliedTo("personal_bests") /\ records # <<>>) =>
        /\ ~out[1].result.raised
        /\ \A dist \in {2000, 5000, 6000, 10000, 21097, 42195} :
              /\ <<dist, "m">> \in DOMAIN out[1].result.value.dict
                    <=> RecordsOfDistance(dist) # {}
              /\ RecordsOfDistance(dist) # {} =>
                    \E k \in RecordsOfDistance(dist) :
                        /\ \A j \in RecordsOfDistance(dist) :
                              records[k].time <= records[j].time
                        /\ out[1].result.value.dict[<<dist, "m">>].time =
                              <<records[k].time \div 600, records[k].time % 600>>
                        /\ out[1].result.value.dict[<<dist, "m">>].date =
                              [ymd |-> records[k].date[1]]
        /\ \A key \in DOMAIN out[1].result.value.dict :
              key[1] \in {2000, 5000, 6000, 10000, 21097, 42195}

\* two records of the same benchmark distance with different times, the
\* slower one first: the entry is the faster one's
C20_Witness ==
    /\ AppliedTo("personal_bests")
    /\ Len(records) = 2
    /\ records[1].distance = 2000 /\ records[2].distance = 2000
    /\ records[1].date[1] < records[2].date[1]
    /\ records[1].time > records[2].time
    /\ ~out[1].result.raised
    /\ DOMAIN out[1].result.value.dict = {<<2000, "m">>}
    /\ out[1].result.value.dict[<<2000, "m">>].date = [ymd |-> records[2].date[1]]

\* C16: after a failed dashboard load the token is refreshed and the load
\* retried once: one original request leads to at most one refresh and one
\* retried load, and a retried load that fails ends at the login with the
\* session cleared instead of another refresh and redirect.
C16_RefreshAndRetryOnce ==
    /\ chain.refreshes <= 1
    /\ chain.loads <= 2
    /\ chain.loads >= 2 => dpc # "redirect_dashboard"

\* positions of the history of the current load at which call occurs
CallsOf(call) == {k \in 1..Len(trace) : trace[k].call = call}

\* C17: a dashboard load of an authenticated session runs at most one sync
\* cycle and at most one analytics pass; the load from the store comes after
\* a sync cycle that returned, the analytics after that load, and there is
\* no analytics pass when the sync cycle raised.
C17_OneSyncThenAnalytics ==
    /\ Cardinality(CallsOf("sync_workouts")) <= 1
    /\ Cardinality(CallsOf("analytics")) <= 1
    /\ Cardinality(CallsOf("load_workouts_as_models")) <= 1
    /\ \A k \in CallsOf("load_workouts_as_models") :
          \E i \in CallsOf("sync_workouts") : i < k /\ trace[i].ok
    /\ \A k \in CallsOf("analytics") :
          \E j \in CallsOf("load_workouts_as_models") : j < k /\ trace[j].ok
    /\ (\E i \in CallsOf("sync_workouts") : ~trace[i].ok) => CallsOf("analytics") = {}

\* a load that ran the sync cycle, the load and the analytics, in this order,
\* and rendered the page
C17_Witness ==
    /\ dpc = "rendered"
    /\ Len(trace) = 4
    /\ trace[2] = [call |-> "sync_workouts", ok |-> TRUE]
    /\ trace[3] = [call |-> "load_workouts_as_models", ok |-> TRUE]
    /\ trace[4] = [call |-> "analytics", ok |-> TRUE]
    /\ db.sync_meta # {}

\* the call of handler p has returned from the operation named
ReturnedFrom(p, operation) == pc[p] = "done" /\ kind[p] = operation

\* C21: load_workouts_as_models(from_date, to_date) returns exactly the
\* stored records dated on or after from_date and on or before the end of
\* the day to_date (each bound only when given), each stored id once, in
\* ascending order of date.
C21_LoadFiltersAndOrders ==
    \A p \in Procs :
        ReturnedFrom(p, "load_workouts_as_models") =>
            LET loaded == ret[p][1]
                from_date == filters[p].from_date
                to_date == filters[p].to_date
                Wanted(row) ==
                    /\ from_date # None => row.date[1] >= from_date[1]
                    /\ to_date # None => row.date[1] <= to_date[1]
            IN /\ {loaded[k] : k \in 1..Len(loaded)} =
                     {[id |-> row.id, date |-> row.date] :
                         row \in {r \in db.workouts : Wanted(r)}}
               /\ \A i, j \in 1..Len(loaded) : i # j => loaded[i].id # loaded[j].id
               /\ \A i, j \in 1..Len(loaded) :
                     i < j =>
                        \/ loaded[i].date[1] < loaded[j].date[1]
                        \/ /\ loaded[i].date[1] = loaded[j].date[1]
                           /\ loaded[i].date[2] <= loaded[j].date[2]

\* a load with both bounds on the same day, from a store holding a record
\* at 23:59:59 of that day and one of another day: the first is returned
C21_Witness ==
    \E p \in Procs :
        /\ ReturnedFrom(p, "load_workouts_as_models")
        /\ filters[p].from_date = <<1>> /\ filters[p].to_date = <<1>>
        /\ Cardinality(db.workouts) = 2
        /\ \E r \in db.workouts : r.date = <<1, 86399>>
        /\ \E r \in db.workouts : r.date[1] = 2
        /\ Len(ret[p][1]) = 1
        /\ ret[p][1][1].date = <<1, 86399>>

\* C22: get_latest_workout_date() returns None for an empty workouts table,
\* and otherwise the day of the maximum stored date: some record has that
\* day and none has a later one.
C22_LatestDate ==
    \A p \in Procs :
        ReturnedFrom(p, "get_latest_workout_date") =>
            /\ db.workouts = {} <=> ret[p][1] = <<>>
            /\ db.workouts # {} =>
                  /\ Len(ret[p][1]) = 1
                  /\ \E r \in db.workouts : r.date[1] = ret[p][1][1]
                  /\ \A r \in db.workouts : r.date[1] <= ret[p][1][1]

\* two records on different days: the later day is returned
C22_Witness ==
    \E p \in Procs :
        /\ ReturnedFrom(p, "get_latest_workout_date")
        /\ \E r1, r2 \in db.workouts : r1.date[1] < r2.date[1]
        /\ ret[p][1] = <<2>>

\* C23: the upsert returns 0 for an empty batch and leaves the
\* table unchanged, and for a non-empty batch the count returned equals the
\* number of rows of workouts that the call inserted or replaced, i.e. the
\* number of rows carrying an id of the batch.
C23_CountIsRowsInsertedOrReplaced ==
    \A p \in Procs :
        ReturnedFrom(p, "_upsert_workouts") =>
            /\ all_results[p] = <<>> =>
                  (ret[p][1] = 0 /\ db = db_before[p])
            /\ all_results[p] # <<>> =>
                  ret[p][1] = Cardinality({r \in db.workouts :
                                              r.id \in BatchIds(all_results[p])})

\* what any reader of the committed store can observe: the rows of workouts
\* are described by the sync_meta row written with them
ReaderSeesMatchingMeta ==
    /\ db.workouts # {} => db.sync_meta # {}
    /\ \A row \in db.sync_meta : row.total_rows = Cardinality(db.workouts)

\* the batches a cycle can have fetched: at most one record per page
FetchedBatches == UNION {[1..n -> WorkoutResult] : n \in 0..MaxTotalPages}

C24_OverlapInv ==
    /\ \A r1, r2 \in db.workouts : r1.id = r2.id => r1 = r2
    /\ ReaderSeesMatchingMeta
    /\ (\A p \in Handlers : pc[p] = "done") =>
          /\ Cardinality(db.sync_meta) = 1
          /\ MetaRow(db).total_rows = Cardinality(db.workouts)

C24_OverlapStep ==
    db' # db =>
        \E p \in Handlers :
            /\ CommitsCycle(p)
            /\ \A q \in Handlers \ {p} :
                  /\ pc'[q] = pc[q]
                  /\ all_results'[q] = all_results[q]
                  /\ page'[q] = page[q]
            /\ db'.sync_meta = {CommittedMetaRow(db', now)}
            /\ \E results \in FetchedBatches :
                  /\ db'.workouts = executemany(db.workouts,
                                                [k \in 1..Len(results) |-> RowOf(results[k])])

\* C24: when two sync cycles of the same stale store overlap in one event
\* loop, in every interleaving the store changes only by whole write
\* sections (upsert, meta update and commit of one cycle in one step, the
\* other cycle standing still), a reader of the committed store never sees
\* upserted rows without the matching sync_meta row, and once both cycles
\* have returned workouts has one row per id and sync_meta exactly one row
\* whose total_rows is the row count.
C24_OverlappingCyclesWriteAtomically == []C24_OverlapInv /\ [][C24_OverlapStep]_vars

\* both cycles started from the same never-synced store, both fetched and
\* both committed: the second write section ran on the rows of the first
C24_Witness ==
    /\ \A p \in Handlers :
          /\ pc[p] = "done"
          /\ kind[p] = "sync_workouts"
          /\ ret[p][1].synced
          /\ db_before[p] = EmptyDb
          /\ Len(all_results[p]) = 1
    /\ all_results[1][1].id # all_results[2][1].id
    /\ Cardinality(db.workouts) = 2
    /\ ret[1][1].total_workouts # ret[2][1].total_workouts

\* handler p enters get_all_results from sync_workouts in this step
SyncFetchStarts(p) ==
    pc[p] = "idle" /\ pc'[p] = "fetching" /\ kind'[p] = "sync_workouts"

C25_FreshStep ==
    /\ \A p \in Procs :
          /\ CommitsCycle(p) =>
                /\ ~needs_sync(db', now')
                /\ SyncState(db', now') = "FRESH"
                /\ MetaRow(db').last_sync_utc.iso = now
          /\ SyncFetchStarts(p) =>
                \/ db.sync_meta = {}
                \/ now - MetaRow(db).last_sync_utc.iso >= 24
    /\ db.sync_meta # {} =>
          /\ db'.sync_meta # {}
          /\ MetaRow(db').last_sync_utc.iso >= MetaRow(db).last_sync_utc.iso

\* C25: the step that commits a sync_workouts or force_sync cycle leaves the
\* store FRESH (needs_sync() false, last_sync the time of the commit); a
\* sync_workouts invocation starts a remote fetch only when there is no
\* sync_meta row or at least 24 hours have passed since the last commit;
\* and the stored last_sync never decreases.
C25_FreshAfterCommit == [][C25_FreshStep]_vars

\* a sync_workouts invoked 12 hours after a commit of a forced sync or a sync
\* returned without fetching
C25_Witness ==
    \E p \in Procs :
        /\ pc[p] = "done"
        /\ kind[p] = "sync_workouts"
        /\ calls[p] = <<>>
        /\ db.workouts # {}
        /\ db.sync_meta # {}
        /\ now - MetaRow(db).last_sync_utc.iso = 12
        /\ MetaRow(db).last_sync_utc.iso > 0

\* the ids stored in a store
StoredIds(d) == {r.id : r \in d.workouts}

\* C26: no step of a sync or forced-sync cycle removes a row: the set of
\* stored ids only grows, and so does the row count.
C26_IdsOnlyGrow ==
    [][/\ StoredIds(db) \subseteq StoredIds(db')
       /\ Cardinality(db.workouts) <= Cardinality(db'.workouts)]_vars

\* a committed cycle replaced the values of a stored row and added a row:
\* the old id is still stored
C26_Witness ==
    \E p \in Procs :
        /\ pc[p] = "done"
        /\ kind[p] \in {"sync_workouts", "force_sync"}
        /\ \E r \in db_before[p].workouts : r \notin db.workouts
        /\ StoredIds(db_before[p]) \subseteq StoredIds(db)
        /\ StoredIds(db_before[p]) # StoredIds(db)

C27_EmptyStep ==
    \A p \in Procs :
        (CommitsCycle(p) /\ kind[p] = "sync_workouts" /\ pc'[p] = "done"
                         /\ all_results'[p] = <<>>) =>
            /\ db'.workouts = db.workouts
            /\ db'.sync_meta = {[id |-> 1, last_sync_utc |-> [iso |-> now],
                                 total_rows |-> Cardinality(db.workouts)]}
            /\ SyncState(db', now') = "FRESH"
            /\ ret'[p][1].synced /\ ret'[p][1].new_workouts = 0

C27_EmptyInv ==
    \A p \in Procs :
        (kind[p] = "sync_workouts" /\ start_state[p] = "STALE"
                                  /\ db_before[p].workouts = {}) =>
            /\ now - MetaRow(db_before[p]).last_sync_utc.iso >= 24
            /\ (pc[p] = "raised" /\ err[p][1].at = "read") \/ Len(calls[p]) >= 1
            /\ \A i \in 1..Len(calls[p]) : FullHistoryRequest(calls[p][i])

\* C27: a sync cycle whose fetch returns no record still commits a sync_meta
\* row (total_rows unchanged, last_sync the time of the cycle) and leaves
\* the store FRESH; a later sync that finds the store stale and still empty
\* (24 hours after the empty sync) fetches the full history again, with no
\* date filter.
C27_EmptySyncCommitsMeta == []C27_EmptyInv /\ [][C27_EmptyStep]_vars

\* 24 hours after a sync that stored nothing, the next sync is fetching the
\* full history
C27_Witness ==
    \E p \in Procs :
        /\ kind[p] = "sync_workouts" /\ start_state[p] = "STALE"
        /\ pc[p] = "fetching"
        /\ db_before[p].workouts = {}
        /\ MetaRow(db_before[p]).total_rows = 0
        /\ now - MetaRow(db_before[p]).last_sync_utc.iso = 24
        /\ Len(calls[p]) >= 1 /\ FullHistoryRequest(calls[p][1])

\* C28: a committed cycle changes only rows whose id occurs in the fetched
\* batch: every row of another id is stored after the commit exactly as
\* before, and no row of another id appears.
C28_OnlyBatchIdsChange ==
    [][\A p \in Procs :
          CommitsCycle(p) =>
              \E data \in PageData :
                  LET results == Extend(all_results[p], data)
                  IN /\ pc'[p] = "done" => all_results'[p] = results
                     /\ {r \in db'.workouts : r.id \notin BatchIds(results)} =
                           {r \in db.workouts : r.id \notin BatchIds(results)}
                     /\ \A k \in 1..Len(results) :
                           results[k].id \in StoredIds(db')]_vars

\* a committed cycle whose batch replaced the values of one stored row while
\* the store held a row of another id, which is stored unchanged
C28_Witness ==
    \E p \in Procs :
        /\ pc[p] = "done"
        /\ kind[p] \in {"sync_workouts", "force_sync"}
        /\ Cardinality(db_before[p].workouts) = 2
        /\ Cardinality(BatchIds(all_results[p])) = 1
        /\ \E r \in db_before[p].workouts :
              r.id \in BatchIds(all_results[p]) /\ r \notin db.workouts
        /\ \E r \in db_before[p].workouts :
              r.id \notin BatchIds(all_results[p]) /\ r \in db.workouts

\* C29: whenever workouts holds a row sync_meta holds its row; hence a cycle
\* that finds no sync_meta row (NEVER_SYNCED) finds workouts empty, and
\* latest_date() is None for it: the fetch it chooses is the full one.
C29_RowsImplyMeta ==
    /\ db.workouts # {} => db.sync_meta # {}
    /\ \A p \in Procs :
          (kind[p] \in {"sync_workouts", "force_sync"}
             /\ start_state[p] = "NEVER_SYNCED") =>
              /\ db_before[p].workouts = {}
              /\ get_latest_workout_date(db_before[p]) = None
              /\ kind[p] = "sync_workouts" /\ pc[p] = "fetching" =>
                    filters[p] = SyncFilters(None)

\* a write section that raised after its upsert, on a never-synced store:
\* nothing of it is stored, and the next sync is again a full fetch
C29_Witness ==
    \E p \in Procs :
        /\ kind[p] = "sync_workouts" /\ pc[p] = "raised"
        /\ err[p][1].at = "update_meta"
        /\ start_state[p] = "NEVER_SYNCED"
        /\ db.workouts = {} /\ db.sync_meta = {}

====
